---- MODULE Spec2Model ----
(***************************************************************************)
(* A model of the "expect" test library: the reflective suite runner       *)
(* (runner.go: Expectify, finish, updatePersistedSummary, Runner, result,  *)
(* the location Runner.Errorf gives a failure) and the assertion engine    *)
(* (Equal with several values, the nil-aware equal, To, Than, showError    *)
(* and the inversion through Not).                                         *)
(*                                                                         *)
(* Text is modelled as a sequence of one-character strings, so that the    *)
(* summary file really is written by a formatter and read back by a        *)
(* regular-expression match.                                               *)
(***************************************************************************)
EXTENDS Integers, Sequences, FiniteSets, TLC

(***************************************************************************)
(* Bounds of the model.                                                    *)
(***************************************************************************)
\* number of methods the suite type has (tp.NumMethod())
NumMethods == 2
\* number of global hooks that may be registered with BeforeEach
MaxHooks == 2
\* number of statements the test bodies of one run execute, all in all
MaxBodySteps == 3
\* number of times an Each hook may call the thunk it is handed
MaxThunkCalls == 2
\* largest passed / failed count handed to updatePersistedSummary on its own
MaxCount == 3
\* number of consecutive updates of the same summary file
MaxUpdates == 2
\* number of values after the first that Expect and Equal are given
MaxOthers == 2
\* number of frames on the call stack when Runner.Errorf is called on its own
MaxFrames == 11

(***************************************************************************)
(* Program constants.                                                      *)
(***************************************************************************)
\* buffer := make([]byte, 128)
BufferSize == 128
\* for i := 3; i < 10; i++
FirstFrame == 3
FrameLimit == 10

VARIABLES
    \* ---- package-level state (runner.go:19-29)
    showStdout,     \* flag -vv
    verbose,        \* testing.Verbose(), flag -v of the host
    summaryPath,    \* TRUE iff flag -summary names a file
    osStdout,       \* os.Stdout: "stdout" (the real stream) or "nil" (silenced)
    beforeEach,     \* the registered global hooks, in registration order
    runner,         \* [results, current]; current = 0 is the nil pointer
    \* ---- the suite and the host test handle
    hasEach,        \* the suite has a method Each taking one callback
    tFailed,        \* number of calls of t.Fail()
    \* ---- locals of one Expectify call and its position
    pc,             \* where control is
    i,              \* loop index over the methods, from 1
    name,           \* local `name`: the method last looked at (0: "")
    res,            \* local `res`: index of the Result last started (0: nil)
    announced,      \* local `announced`
    h,              \* index of the next global hook to run
    thunkCalls,     \* how often the thunk f of this test has been called
    steps,          \* statements the test bodies have executed in this run
    panicVal,       \* the value panicked with, err of line 46 ("" when none)
    raised,         \* the value Expectify let propagate ("" when none)
    origin,         \* what was running when the panic started
    \* ---- what an observer sees
    out,            \* what was printed on the real stream, in order
    trace,          \* calls made for the test being run, in order
    finishCalls,    \* number of calls of finish(t)
    \* ---- the summary file
    file,           \* contents of the file at *summaryPath
    upd,            \* record of the updates of the file made so far
    \* ---- one call of the assertion engine
    asrt

pkgVars == <<showStdout, verbose, summaryPath, osStdout, beforeEach, runner>>
hostVars == <<hasEach, tFailed>>
ctlVars == <<pc, i, name, res, announced, h, thunkCalls, steps, panicVal, raised, origin>>
obsVars == <<out, trace, finishCalls>>
fileVars == <<file, upd>>
vars == <<pkgVars, hostVars, ctlVars, obsVars, fileVars, asrt>>

(***************************************************************************)
(* Text.                                                                   *)
(***************************************************************************)
Digits == <<"0", "1", "2", "3", "4", "5", "6", "7", "8", "9">>

IsDigit(c) == \E d \in 1..10 : Digits[d] = c

DigitVal(c) == (CHOOSE d \in 1..10 : Digits[d] = c) - 1

\* regexp \s: [\t\n\f\r ]
IsSpace(c) == c \in {" ", "\n", "\t", "\r", "\f"}

\* fmt's %d of a non-negative int
RECURSIVE Itoa(_)
Itoa(n) == IF n < 10 THEN <<Digits[n + 1]>>
           ELSE Itoa(n \div 10) \o <<Digits[(n % 10) + 1]>>

\* strconv.Atoi of a non-empty run of digits
RECURSIVE Atoi(_)
Atoi(s) == IF Len(s) = 0 THEN 0
           ELSE 10 * Atoi(SubSeq(s, 1, Len(s) - 1)) + DigitVal(s[Len(s)])

PassedLit == <<" ", "p", "a", "s", "s", "e", "d">>
FailedLit == <<" ", "f", "a", "i", "l", "e", "d">>

\* the literal lit stands in s at position p
MatchLit(s, p, lit) ==
    /\ p + Len(lit) - 1 <= Len(s)
    /\ \A k \in 1..Len(lit) : s[p + k - 1] = lit[k]

\* last index of the longest run of digits of s that starts at p (p-1: none)
RECURSIVE DigitsEnd(_, _)
DigitsEnd(s, p) == IF p <= Len(s) /\ IsDigit(s[p]) THEN DigitsEnd(s, p + 1) ELSE p - 1

\* last index of the longest run of white space of s that starts at p
RECURSIVE SpaceEnd(_, _)
SpaceEnd(s, p) == IF p <= Len(s) /\ IsSpace(s[p]) THEN SpaceEnd(s, p + 1) ELSE p - 1

NoMatch == [ok |-> FALSE, g1 |-> <<>>, g2 |-> <<>>, end |-> 0]

\* the match of `(\d+) passed\s*(\d+) failed` that starts at p. Every
\* repetition is followed by a character outside its class, so the greedy
\* choice is the only one that can match.
MatchAt(s, p) ==
    LET e1 == DigitsEnd(s, p) IN
    IF e1 < p \/ ~MatchLit(s, e1 + 1, PassedLit) THEN NoMatch
    ELSE LET d  == SpaceEnd(s, e1 + 1 + Len(PassedLit)) + 1
             e2 == DigitsEnd(s, d)
         IN  IF e2 < d \/ ~MatchLit(s, e2 + 1, FailedLit) THEN NoMatch
             ELSE [ok |-> TRUE, g1 |-> SubSeq(s, p, e1), g2 |-> SubSeq(s, d, e2),
                   end |-> e2 + Len(FailedLit)]

\* regexp.FindAllStringSubmatch(s, n) from position p: leftmost matches, each
\* search resuming after the previous match
RECURSIVE FindAllStringSubmatch(_, _, _)
FindAllStringSubmatch(s, p, n) ==
    IF n = 0 \/ p > Len(s) THEN <<>>
    ELSE LET m == MatchAt(s, p) IN
         IF m.ok THEN <<m>> \o FindAllStringSubmatch(s, m.end + 1, n - 1)
         ELSE FindAllStringSubmatch(s, p + 1, n)

(***************************************************************************)
(* The terminal/color formatter the runner prints with: "@g" and "@r" in a *)
(* format become an escape sequence, and a format that held one ends with  *)
(* the reset sequence.                                                     *)
(***************************************************************************)
Colorize(code) ==
    <<"ESC", "[", "0", ";", "3">> \o (IF code = "g" THEN <<"2">> ELSE <<"1">>)
        \o <<";", "4", "9", "m">>

ResetCode == <<"ESC", "[", "0", "m">>

\* color.Fprintf(file, "\n* @g%d passed\n", n)
PassedLine(n) ==
    <<"\n", "*", " ">> \o Colorize("g") \o Itoa(n) \o PassedLit \o <<"\n">> \o ResetCode

\* color.Fprintf(file, "* @r%d failed\n", n)
FailedLine(n) ==
    <<"*", " ">> \o Colorize("r") \o Itoa(n) \o FailedLit \o <<"\n">> \o ResetCode

\* file.Write([]byte("* 0 failed\n"))
ZeroFailedLine == <<"*", " ", "0">> \o FailedLit \o <<"\n">>

(***************************************************************************)
(* updatePersistedSummary(path, passed, failed): the new contents of the   *)
(* file f, which opened without error.                                     *)
(***************************************************************************)
\* n, err := file.Read(buffer): the bytes of f that fit the buffer
ReadBuffer(f) == IF Len(f) <= BufferSize THEN f ELSE SubSeq(f, 1, BufferSize)

\* the counts after the merge with what the buffer holds (lines 151-162)
MergedCounts(f, passed, failed) ==
    LET buffer == ReadBuffer(f)
        found  == FindAllStringSubmatch(buffer, 1, 2)
    IN  IF Len(buffer) > 0 /\ Len(found) = 1
        THEN [passed |-> passed + Atoi(found[1].g1), failed |-> failed + Atoi(found[1].g2)]
        ELSE [passed |-> passed, failed |-> failed]

\* the two lines written at the end (lines 164-169)
SummaryText(passed, failed) ==
    PassedLine(passed) \o (IF failed > 0 THEN FailedLine(passed) ELSE ZeroFailedLine)

updatePersistedSummary(f, passed, failed) ==
    LET m    == MergedCounts(f, passed, failed)
        \* file.Truncate(0) when something was read; the file is opened with
        \* O_APPEND, so what is written lands at its end
        kept == IF Len(ReadBuffer(f)) > 0 THEN <<>> ELSE f
    IN  kept \o SummaryText(m.passed, m.failed)

(***************************************************************************)
(* result and Runner (runner.go:176-296).                                  *)
(***************************************************************************)
\* os.Stdout holds one of two values: the real stream, or the nil *os.File
Stdout == "stdout"

\* var silentOut: nil, or the real stream when init() saw -vv (lines 36-38)
SilentOut == IF showStdout THEN Stdout ELSE "nil"

\* &result{...} of Runner.Start
\* The end time is kept as the assignment that set it: "" is the zero time,
\* "End" the time.Now() of line 193, "Report" the one of line 270.
NewResult(method) ==
    [method |-> method, failures |-> <<>>, skip |-> FALSE, skipMessage |-> "", end |-> ""]

\* !r.end.IsZero()
Ended(r) == r.end # ""

\* Passed without the skip flag
PassedIgnoringSkip(r) == Len(r.failures) = 0

\* func (r *result) Passed() bool
Passed(r) == r.skip \/ Len(r.failures) = 0

\* the glyph result.Report and result.Summary choose
Glyph(r) == IF r.skip THEN "skipped" ELSE IF Passed(r) THEN "passed" ELSE "failed"

Line(ev, method, as, n) == [ev |-> ev, method |-> method, as |-> as, n |-> n]

\* what result.Report prints: the line of the test, then the skip message or
\* one line for each failure
ReportLine(r) ==
    Line("report", r.method, Glyph(r), IF Glyph(r) = "failed" THEN Len(r.failures) ELSE 0)

\* what result.Summary prints
SummaryLine(r) ==
    Line("summary", r.method, Glyph(r), IF Glyph(r) = "failed" THEN Len(r.failures) ELSE 0)

\* a print through os.Stdout reaches the terminal only when os.Stdout is the
\* real stream; a write to the nil file is lost
Emit(o, stream, line) == IF stream = Stdout THEN Append(o, line) ELSE o

\* func (r *Runner) Start: the runner after it
Start(rn, method) ==
    [results |-> Append(rn.results, NewResult(method)), current |-> Len(rn.results) + 1]

\* func (r *Runner) End, for a current result: the runner after it
End(rn) ==
    [results |-> [rn.results EXCEPT ![rn.current].end = "End"], current |-> 0]

\* func (r *Runner) Skip
Skip(rn, msg) ==
    IF rn.current # 0
    THEN [rn EXCEPT !.results[rn.current].skip = TRUE,
                    !.results[rn.current].skipMessage = msg]
    ELSE rn

\* A file name is a sequence of pieces: directory names, the separators "/"
\* and "\\", and at the end the stem of the file and what follows it
\* ("_test.go" or ".go"). A call stack is a sequence of frames [file, line],
\* the first being frame 0, Runner.Errorf itself.
TestSuffix == "_test.go"

LibraryFile == <<"/", "expect", "/", "runner", ".go">>

SuiteFile == <<"/", "suite", "/", "calc", TestSuffix>>

\* the stack of a call of Fail made by a test method at the given line:
\* Runner.Errorf, the function value Errorf, Fail, the test method, and
\* what called it
BodyStack(line) ==
    <<[file |-> LibraryFile, line |-> 205], [file |-> LibraryFile, line |-> 45],
      [file |-> LibraryFile, line |-> 53], [file |-> SuiteFile, line |-> line],
      [file |-> LibraryFile, line |-> 94]>>

\* strings.HasSuffix(file, suffix), for a suffix that is one piece
HasSuffix(f, suffix) == Len(f) > 0 /\ f[Len(f)] = suffix

\* strings.LastIndex(file, sep), counted from 1; 0 when sep does not occur
LastIndex(f, sep) ==
    IF \E k \in DOMAIN f : f[k] = sep
    THEN CHOOSE k \in DOMAIN f : f[k] = sep /\ \A j \in DOMAIN f : f[j] = sep => j <= k
    ELSE 0

\* lines 216-222: the directories are cut off
StripDir(f) ==
    IF LastIndex(f, "/") > 0 THEN SubSeq(f, LastIndex(f, "/") + 1, Len(f))
    ELSE IF LastIndex(f, "\\") > 0 THEN SubSeq(f, LastIndex(f, "\\") + 1, Len(f))
    ELSE f

\* runtime.Caller(k): the frame and ok, or the zero values and not ok when
\* the stack has no frame k
Caller(stack, k) ==
    IF k + 1 <= Len(stack)
    THEN [file |-> stack[k + 1].file, line |-> stack[k + 1].line, ok |-> TRUE]
    ELSE [file |-> <<>>, line |-> 0, ok |-> FALSE]

\* lines 206-208: file, line and ok before the loop
Unknown == [file |-> <<"???">>, line |-> 1, ok |-> FALSE]

\* the loop of lines 209-214 from i = k on, `found` being file, line and ok
\* as they stand
RECURSIVE Walk(_, _, _)
Walk(stack, k, found) ==
    IF k >= FrameLimit THEN found
    ELSE LET c == Caller(stack, k)
         IN  IF ~c.ok \/ HasSuffix(c.file, TestSuffix) THEN c
             ELSE Walk(stack, k + 1, c)

\* lines 206-222 and 226: the location of the failure
Location(stack) ==
    LET f == Walk(stack, FirstFrame, Unknown)
    IN  [file |-> IF f.ok THEN StripDir(f.file) ELSE f.file, line |-> f.line]

\* line 228 keeping the new failure only
ErrorfKeepingLast(rn, msg, stack) ==
    [rn EXCEPT !.results[rn.current].failures =
                  <<[message |-> msg, location |-> Location(stack)]>>]

\* func (r *Runner) Errorf, for a current result (a nil current is a nil
\* pointer dereference: see BodyErrorf)
Errorf(rn, msg, stack) ==
    [rn EXCEPT !.results[rn.current].failures =
                  Append(@, [message |-> msg, location |-> Location(stack)])]

\* func (r *Runner) ErrorMessage and func (r *result) ErrorMessage
ErrorMessage(rn, msg) ==
    IF rn.current # 0 /\ Len(rn.results[rn.current].failures) > 0
    THEN [rn EXCEPT !.results[rn.current].failures[Len(rn.results[rn.current].failures)].message = msg]
    ELSE rn

\* lines 269-271 setting the end time whatever it is
ReportedAnew(rn, k) == [rn EXCEPT !.results[k].end = "Report"]

\* result.Report sets a zero end time before it prints (lines 269-271)
Reported(rn, k) ==
    IF Ended(rn.results[k]) THEN rn ELSE [rn EXCEPT !.results[k].end = "Report"]

(***************************************************************************)
(* finish(t) (runner.go:116-139).                                          *)
(***************************************************************************)
\* the loop of lines 117-122
NumPassed(results) == Cardinality({k \in DOMAIN results : Passed(results[k])})

\* the loop of lines 127-131 without the test of line 128
SummaryLinesUnfiltered(results) == [k \in DOMAIN results |-> SummaryLine(results[k])]

\* the loop of lines 127-131
RECURSIVE SummaryLines(_)
SummaryLines(results) ==
    IF Len(results) = 0 THEN <<>>
    ELSE (IF Passed(Head(results)) THEN <<>> ELSE <<SummaryLine(Head(results))>>)
             \o SummaryLines(Tail(results))

\* lines 124-135: printed with os.Stdout set to the real stream
FailureSummary(results) ==
    <<Line("header", 0, "", 0)>> \o SummaryLines(results) \o <<Line("blank", 0, "", 0)>>

\* the bookkeeping of one update of the summary file
Updated(u, passed, failed) ==
    [count |-> u.count + 1, err |-> FALSE,
     totalPassed |-> u.totalPassed + passed, totalFailed |-> u.totalFailed + failed,
     fromEmpty |-> u.fromEmpty, lastPassed |-> passed, lastFailed |-> failed]

\* finish(t); opens tells whether os.OpenFile succeeds. When it does not,
\* updatePersistedSummary panics after everything else finish does.
finish(opens) ==
    LET passed == NumPassed(runner.results)
        failed == Len(runner.results) - passed
    IN  /\ finishCalls' = finishCalls + 1
        /\ IF failed # 0
           THEN /\ out' = out \o FailureSummary(runner.results)
                /\ osStdout' = SilentOut
                /\ tFailed' = tFailed + 1
           ELSE UNCHANGED <<out, osStdout, tFailed>>
        /\ IF summaryPath /\ opens
           THEN /\ file' = updatePersistedSummary(file, passed, failed)
                /\ upd' = Updated(upd, passed, failed)
           ELSE IF summaryPath
           THEN /\ upd' = [upd EXCEPT !.err = TRUE]
                /\ UNCHANGED file
           ELSE UNCHANGED <<file, upd>>

(***************************************************************************)
(* The state after package initialisation (runner.go:19-40), before any    *)
(* hook is registered and before Expectify is called.                      *)
(***************************************************************************)
\* a summary file in the form the specification gives: "3 passed\n0 failed"
PlainSummary(passed, failed) ==
    Itoa(passed) \o PassedLit \o <<"\n">> \o Itoa(failed) \o FailedLit

NoUpdate(passed, failed, empty) ==
    [count |-> 0, err |-> FALSE, totalPassed |-> passed, totalFailed |-> failed,
     fromEmpty |-> empty, lastPassed |-> 0, lastFailed |-> 0]

NoAssertion ==
    [state |-> "none", invert |-> FALSE, actual |-> 0, others |-> <<>>,
     expected |-> 0, expectedOthers |-> <<>>, pairs |-> <<>>, failed |-> FALSE]

InitControl ==
    /\ pc = "start" /\ i = 0 /\ name = 0 /\ res = 0 /\ announced = FALSE
    /\ h = 0 /\ thunkCalls = 0 /\ steps = 0
    /\ panicVal = "" /\ raised = "" /\ origin = ""
    /\ out = <<>> /\ trace = <<>> /\ finishCalls = 0 /\ tFailed = 0

Init ==
    /\ showStdout \in BOOLEAN
    /\ verbose \in BOOLEAN
    /\ summaryPath \in BOOLEAN
    /\ hasEach \in BOOLEAN
    /\ osStdout = SilentOut
    /\ beforeEach = <<>>
    /\ runner = [results |-> <<>>, current |-> 0]
    /\ InitControl
    /\ file = <<>>
    /\ upd = NoUpdate(0, 0, TRUE)
    /\ asrt = NoAssertion

(***************************************************************************)
(* Expectify (runner.go:42-114) and BeforeEach (runner.go:172-174).        *)
(***************************************************************************)
PanicValues == {"endTestErr", "other"}

\* line 47 with the comparison inverted
IsNotControlledStop(v) == v # "endTestErr"

\* line 47: err == endTestErr
IsControlledStop(v) == v = "endTestErr"

\* line 91 assigning the silenced sink
StreamForTestSilenced == SilentOut

\* line 91: os.Stdout = stdout
StreamForTest == Stdout

\* line 111 assigning the real stream
StreamAfterTestReal == Stdout

\* line 111: os.Stdout = silentOut
StreamAfterTest == SilentOut

\* line 51 assigning the silenced sink
StreamOnCrashSilenced == SilentOut

\* line 51: os.Stdout = stdout
StreamOnCrash == Stdout

\* panic(v) from a callback of the suite, or from a nil dereference
Panics(v, where) ==
    /\ pc' = "panicking"
    /\ panicVal' = v
    /\ origin' = where

\* func BeforeEach(f func())
BeforeEach ==
    /\ pc = "start"
    /\ Len(beforeEach) < MaxHooks
    /\ beforeEach' = Append(beforeEach, Len(beforeEach) + 1)
    /\ UNCHANGED <<showStdout, verbose, summaryPath, osStdout, runner>>
    /\ UNCHANGED <<hostVars, ctlVars, obsVars, fileVars, asrt>>

\* lines 60-73: the fresh Runner and the locals
Expectify ==
    /\ pc = "start"
    /\ runner' = [results |-> <<>>, current |-> 0]
    /\ announced' = FALSE
    /\ i' = 1
    /\ pc' = "loop"
    /\ UNCHANGED <<showStdout, verbose, summaryPath, osStdout, beforeEach>>
    /\ UNCHANGED <<name, res, h, thunkCalls, steps, panicVal, raised, origin>>
    /\ UNCHANGED <<hostVars, obsVars, fileVars, asrt>>

\* lines 75-89: a method that takes arguments, or that the -m pattern rejects
SkipMethod ==
    /\ pc = "loop"
    /\ i <= NumMethods
    /\ name' = i
    /\ i' = i + 1
    /\ UNCHANGED <<pc, res, announced, h, thunkCalls, steps, panicVal, raised, origin>>
    /\ UNCHANGED <<pkgVars, hostVars, obsVars, fileVars, asrt>>

\* lines 75-92: the method is a test; the stream is set and the Result started
StartTest ==
    /\ pc = "loop"
    /\ i <= NumMethods
    /\ name' = i
    /\ osStdout' = StreamForTest
    /\ runner' = Start(runner, i)
    /\ res' = Len(runner.results) + 1
    /\ h' = 1
    /\ thunkCalls' = 0
    /\ trace' = <<>>
    /\ pc' = "hooks"
    /\ UNCHANGED <<showStdout, verbose, summaryPath, beforeEach>>
    /\ UNCHANGED <<i, announced, steps, panicVal, raised, origin>>
    /\ UNCHANGED <<hostVars, out, finishCalls, fileVars, asrt>>

\* lines 103-105: the next global hook runs, and returns
RunHook ==
    /\ pc = "hooks"
    /\ h <= Len(beforeEach)
    /\ trace' = Append(trace, <<"hook", beforeEach[h]>>)
    /\ h' = h + 1
    /\ UNCHANGED <<pc, i, name, res, announced, thunkCalls, steps, panicVal, raised, origin>>
    /\ UNCHANGED <<pkgVars, hostVars, out, finishCalls, fileVars, asrt>>

\* lines 103-105: the next global hook runs, and panics
HookPanics ==
    /\ pc = "hooks"
    /\ h <= Len(beforeEach)
    /\ trace' = Append(trace, <<"hook", beforeEach[h]>>)
    /\ \E v \in PanicValues : Panics(v, "hook")
    /\ UNCHANGED <<i, name, res, announced, h, thunkCalls, steps, raised>>
    /\ UNCHANGED <<pkgVars, hostVars, out, finishCalls, fileVars, asrt>>

\* lines 106-107: each.Func.Call
CallEach ==
    /\ pc = "hooks"
    /\ h > Len(beforeEach)
    /\ hasEach
    /\ trace' = Append(trace, <<"Each", 0>>)
    /\ pc' = "each"
    /\ UNCHANGED <<i, name, res, announced, h, thunkCalls, steps, panicVal, raised, origin>>
    /\ UNCHANGED <<pkgVars, hostVars, out, finishCalls, fileVars, asrt>>

\* line 94: method.Func.Call, the first statement of the thunk f
EnterThunk ==
    /\ trace' = Append(trace, <<"method", name>>)
    /\ thunkCalls' = thunkCalls + 1
    /\ pc' = "body"

\* lines 108-109: f() when the suite has no Each
CallThunk ==
    /\ pc = "hooks"
    /\ h > Len(beforeEach)
    /\ ~hasEach
    /\ EnterThunk
    /\ UNCHANGED <<i, name, res, announced, h, steps, panicVal, raised, origin>>
    /\ UNCHANGED <<pkgVars, hostVars, out, finishCalls, fileVars, asrt>>

\* the suite's Each calls the thunk it was handed
EachCallsThunk ==
    /\ pc = "each"
    /\ thunkCalls < MaxThunkCalls
    /\ EnterThunk
    /\ UNCHANGED <<i, name, res, announced, h, steps, panicVal, raised, origin>>
    /\ UNCHANGED <<pkgVars, hostVars, out, finishCalls, fileVars, asrt>>

\* the suite's Each panics
EachPanics ==
    /\ pc = "each"
    /\ \E v \in PanicValues : Panics(v, "each")
    /\ UNCHANGED <<i, name, res, announced, h, thunkCalls, steps, raised>>
    /\ UNCHANGED <<pkgVars, hostVars, obsVars, fileVars, asrt>>

\* line 111 and the loop's i++
AfterTest ==
    /\ osStdout' = StreamAfterTest
    /\ i' = i + 1
    /\ pc' = "loop"

\* what the suite's Each does besides calling the thunk: Fail, Skip and
\* runner.ErrorMessage, before the thunk is called or after it has returned
InEach == pc = "each" /\ steps < MaxBodySteps

EachFrame ==
    /\ UNCHANGED <<showStdout, verbose, summaryPath, osStdout, beforeEach>>
    /\ UNCHANGED <<i, name, res, announced, h, thunkCalls, raised>>
    /\ UNCHANGED <<hostVars, obsVars, fileVars, asrt>>

EachErrorf ==
    /\ InEach
    /\ steps' = steps + 1
    /\ IF runner.current = 0
       THEN Panics("nilderef", "each") /\ UNCHANGED runner
       ELSE /\ runner' = Errorf(runner, "failure", BodyStack(steps + 1))
            /\ UNCHANGED <<pc, panicVal, origin>>
    /\ EachFrame

EachSkip ==
    /\ InEach
    /\ steps' = steps + 1
    /\ runner' = Skip(runner, "skipped")
    /\ UNCHANGED <<pc, panicVal, origin>>
    /\ EachFrame

EachErrorMessage ==
    /\ InEach
    /\ steps' = steps + 1
    /\ runner' = ErrorMessage(runner, "custom")
    /\ UNCHANGED <<pc, panicVal, origin>>
    /\ EachFrame

\* the suite's Each returns
EachReturns ==
    /\ pc = "each"
    /\ AfterTest
    /\ UNCHANGED <<showStdout, verbose, summaryPath, beforeEach, runner>>
    /\ UNCHANGED <<name, res, announced, h, thunkCalls, steps, panicVal, raised, origin>>
    /\ UNCHANGED <<hostVars, obsVars, fileVars, asrt>>

(***************************************************************************)
(* The statements of a test body, and the rest of the thunk f.             *)
(***************************************************************************)
InBody == pc = "body" /\ steps < MaxBodySteps

BodyFrame ==
    /\ UNCHANGED <<showStdout, verbose, summaryPath, osStdout, beforeEach>>
    /\ UNCHANGED <<i, name, res, announced, h, thunkCalls, raised>>
    /\ UNCHANGED <<hostVars, obsVars, fileVars, asrt>>

\* a failing assertion, or Fail: Errorf -> runner.Errorf (part_000:44-54).
\* Line 228 dereferences r.current without a nil check.
BodyErrorf ==
    /\ InBody
    /\ steps' = steps + 1
    /\ IF runner.current = 0
       THEN Panics("nilderef", "body") /\ UNCHANGED runner
       ELSE /\ runner' = Errorf(runner, "failure", BodyStack(steps + 1))
            /\ UNCHANGED <<pc, panicVal, origin>>
    /\ BodyFrame

\* an assertion that passes: nothing is reported
BodyPasses ==
    /\ InBody
    /\ steps' = steps + 1
    /\ UNCHANGED <<runner, pc, panicVal, origin>>
    /\ BodyFrame

\* Skip -> runner.Skip (part_000:56-58)
BodySkip ==
    /\ InBody
    /\ steps' = steps + 1
    /\ runner' = Skip(runner, "skipped")
    /\ UNCHANGED <<pc, panicVal, origin>>
    /\ BodyFrame

\* runner.ErrorMessage
BodyErrorMessage ==
    /\ InBody
    /\ steps' = steps + 1
    /\ runner' = ErrorMessage(runner, "custom")
    /\ UNCHANGED <<pc, panicVal, origin>>
    /\ BodyFrame

\* the body panics, with the controlled-stop sentinel or with anything else
BodyPanics ==
    /\ InBody
    /\ steps' = steps + 1
    /\ \E v \in PanicValues : Panics(v, "body")
    /\ UNCHANGED runner
    /\ BodyFrame

\* the body returns: lines 95-101, and line 111 when f was called directly.
\* runner.End dereferences r.current without a nil check (line 193).
ThunkEnd ==
    /\ pc = "body"
    /\ IF runner.current = 0
       THEN /\ Panics("nilderef", "end")
            /\ UNCHANGED <<runner, announced, out, osStdout, i>>
       ELSE LET passed == Passed(runner.results[runner.current])
                show   == ~passed \/ verbose
                o1     == IF show /\ ~announced
                          THEN Emit(out, osStdout, Line("announce", 0, "", 0)) ELSE out
            IN  /\ runner' = End(runner)
                /\ announced' = (announced \/ show)
                /\ out' = IF show THEN Emit(o1, osStdout, ReportLine(runner'.results[res]))
                          ELSE o1
                /\ UNCHANGED <<panicVal, origin>>
                /\ IF hasEach
                   THEN pc' = "each" /\ UNCHANGED <<osStdout, i>>
                   ELSE AfterTest
    /\ UNCHANGED <<showStdout, verbose, summaryPath, beforeEach>>
    /\ UNCHANGED <<name, res, h, thunkCalls, steps, raised>>
    /\ UNCHANGED <<hostVars, trace, finishCalls, fileVars, asrt>>

(***************************************************************************)
(* The end of Expectify: line 113, and the deferred function of lines      *)
(* 45-58.                                                                  *)
(***************************************************************************)
\* whether os.OpenFile of the summary file may fail
Opens == IF summaryPath THEN BOOLEAN ELSE {TRUE}

\* line 113: finish(t) after the loop
Finish ==
    /\ pc = "loop"
    /\ i > NumMethods
    /\ \E opens \in Opens :
          /\ finish(opens)
          /\ IF opens
             THEN pc' = "done" /\ UNCHANGED <<panicVal, origin>>
             ELSE Panics("ioerr", "finish")
    /\ UNCHANGED <<showStdout, verbose, summaryPath, beforeEach, runner>>
    /\ UNCHANGED <<i, name, res, announced, h, thunkCalls, steps, raised>>
    /\ UNCHANGED <<hasEach, trace, asrt>>

\* lines 45-58: the deferred function, run with a panic in flight
Recover ==
    /\ pc = "panicking"
    /\ IF IsControlledStop(panicVal)
       THEN \E opens \in Opens :
              /\ finish(opens)
              /\ IF opens
                 THEN pc' = "done" /\ UNCHANGED raised
                 ELSE pc' = "crashed" /\ raised' = "ioerr"
              /\ UNCHANGED runner
       ELSE /\ osStdout' = StreamOnCrash
            /\ runner' = IF res # 0 THEN Reported(runner, res) ELSE runner
            /\ out' = out \o (IF res # 0 THEN <<ReportLine(runner.results[res])>> ELSE <<>>)
                           \o <<Line("bomb", name, "", 0)>>
            /\ pc' = "crashed"
            /\ raised' = panicVal
            /\ UNCHANGED <<tFailed, finishCalls, fileVars>>
    /\ UNCHANGED <<showStdout, verbose, summaryPath, beforeEach>>
    /\ UNCHANGED <<i, name, res, announced, h, thunkCalls, steps, panicVal, origin>>
    /\ UNCHANGED <<hasEach, trace, asrt>>

Next ==
    \/ BeforeEach
    \/ Expectify
    \/ SkipMethod
    \/ StartTest
    \/ RunHook
    \/ HookPanics
    \/ CallEach
    \/ CallThunk
    \/ EachCallsThunk
    \/ EachPanics
    \/ EachErrorf
    \/ EachSkip
    \/ EachErrorMessage
    \/ EachReturns
    \/ BodyErrorf
    \/ BodyPasses
    \/ BodySkip
    \/ BodyErrorMessage
    \/ BodyPanics
    \/ ThunkEnd
    \/ Finish
    \/ Recover

Spec == Init /\ [][Next]_vars

(***************************************************************************)
(* The summary file on its own: updatePersistedSummary applied, several    *)
(* times over, to a file that starts absent (empty) or in the plain form   *)
(* "<n> passed\n<m> failed".                                               *)
(***************************************************************************)
InitSummary ==
    /\ showStdout = FALSE
    /\ verbose = FALSE
    /\ summaryPath = TRUE
    /\ hasEach = FALSE
    /\ osStdout = SilentOut
    /\ beforeEach = <<>>
    /\ runner = [results |-> <<>>, current |-> 0]
    /\ InitControl
    /\ \/ file = <<>> /\ upd = NoUpdate(0, 0, TRUE)
       \/ \E p0 \in 0..MaxCount, f0 \in 0..MaxCount :
             file = PlainSummary(p0, f0) /\ upd = NoUpdate(p0, f0, FALSE)
    /\ asrt = NoAssertion

\* one run's call updatePersistedSummary(path, passed, failed) (line 137)
UpdateSummary ==
    /\ upd.count < MaxUpdates
    /\ ~upd.err
    /\ \E passed \in 0..MaxCount, failed \in 0..MaxCount, opens \in BOOLEAN :
          IF opens
          THEN /\ file' = updatePersistedSummary(file, passed, failed)
               /\ upd' = Updated(upd, passed, failed)
          ELSE /\ upd' = [upd EXCEPT !.err = TRUE]
               /\ UNCHANGED file
    /\ UNCHANGED <<pkgVars, hostVars, ctlVars, obsVars, asrt>>

NextSummary == UpdateSummary

SpecSummary == InitSummary /\ [][NextSummary]_vars

(***************************************************************************)
(* Reading the summary file as a person does: the number that stands in    *)
(* front of the first " passed", and of the first " failed".               *)
(***************************************************************************)
RECURSIVE DigitsStart(_, _)
DigitsStart(s, e) == IF e >= 1 /\ IsDigit(s[e]) THEN DigitsStart(s, e - 1) ELSE e + 1

NumberBefore(s, lit) ==
    LET P == {p \in 2..Len(s) : MatchLit(s, p, lit) /\ IsDigit(s[p - 1])} IN
    IF P = {} THEN -1
    ELSE LET p == CHOOSE q \in P : \A r \in P : q <= r
         IN  Atoi(SubSeq(s, DigitsStart(s, p - 1), p - 1))

ShownPassed(s) == NumberBefore(s, PassedLit)
ShownFailed(s) == NumberBefore(s, FailedLit)

\* C1: after updatePersistedSummary has rewritten a file that held
\* "<p> passed\n<f> failed", the passed line shows p plus the run's passed
\* count and the failed line shows f plus the run's failed count.
C1_MergedTotalsWritten ==
    (upd.count = 1 /\ ~upd.fromEmpty) =>
        /\ ShownPassed(file) = upd.totalPassed
        /\ ShownFailed(file) = upd.totalFailed

\* C2: starting from an absent or empty file, what one run writes is
\* recognised by the pattern the next run parses, so after the second run
\* the file shows the sums of the passed and of the failed counts of both.
C2_CrossRunAggregation ==
    /\ (upd.count >= 1 /\ upd.fromEmpty) =>
          Len(FindAllStringSubmatch(ReadBuffer(file), 1, 2)) = 1
    /\ (upd.count = 2 /\ upd.fromEmpty) =>
          /\ ShownPassed(file) = upd.totalPassed
          /\ ShownFailed(file) = upd.totalFailed

(***************************************************************************)
(* The assertion engine: values, and the helpers that equal and To call.   *)
(* A value is its reflect kind, whether it is nil, and what it holds.      *)
(***************************************************************************)
Val(kind, isNil, v) == [kind |-> kind, nil |-> isNil, val |-> v]

UntypedNil == Val("invalid", TRUE, 0)
NilPtr == Val("ptr", TRUE, 0)
PtrV(v) == Val("ptr", FALSE, v)
IntV(v) == Val("int", FALSE, v)
StrV(v) == Val("string", FALSE, v)

\* the values the first operands of Expect and Equal are drawn from
Values == {UntypedNil, NilPtr, PtrV(1), IntV(1), IntV(2), StrV(1)}

\* the values the further operands are drawn from
OtherValues == {UntypedNil, IntV(1), IntV(2)}

SeqsUpTo(S, n) == UNION {[1..m -> S] : m \in 0..n}

\* IsNil: the untyped nil, and a nil pointer, interface, map or slice
IsNil(v) == v.nil

IntKinds == {"int", "int8", "int16", "int32", "int64"}

UintKinds == {"uint", "uint8", "uint16", "uint32", "uint64"}

FloatKinds == {"float32", "float64"}

KindFamily(kind) ==
    IF kind \in IntKinds THEN "int"
    ELSE IF kind \in UintKinds THEN "uint"
    ELSE IF kind \in FloatKinds THEN "float"
    ELSE kind

\* SameKind: the kind of the actual value, and whether the expected value is
\* of the same family of kinds
SameKind(a, b) == [kind |-> a.kind, ok |-> KindFamily(a.kind) = KindFamily(b.kind)]

IsInt(v) == v.kind \in IntKinds

\* ToInt64: the value widened to 64 bits
ToInt64(v) == Val("int64", FALSE, v.val)

IsUint(v) == v.kind \in UintKinds

\* ToUint64: the value widened to 64 bits
ToUint64(v) == Val("uint64", FALSE, v.val)

\* IsNumeric: any integer or float kind
IsNumeric(v) == v.kind \in IntKinds \cup UintKinds \cup FloatKinds

\* the five comparators: (kind, actual, expected) -> the relation holds
EqualsComparitor(kind, a, b) == a.val = b.val
GreaterThanComparitor(kind, a, b) == a.val > b.val
GreaterOrEqualToComparitor(kind, a, b) == a.val >= b.val
LessThanComparitor(kind, a, b) == a.val < b.val
LessThanOrEqualToComparitor(kind, a, b) == a.val <= b.val

\* the call a.comparitor(kind, actual, expected) of line 174, the comparator
\* being the one the assertion was built with
Compare(c, kind, a, b) ==
    CASE c = "EqualsComparitor" -> EqualsComparitor(kind, a, b)
      [] c = "GreaterThanComparitor" -> GreaterThanComparitor(kind, a, b)
      [] c = "GreaterOrEqualToComparitor" -> GreaterOrEqualToComparitor(kind, a, b)
      [] c = "LessThanComparitor" -> LessThanComparitor(kind, a, b)
      [] c = "LessThanOrEqualToComparitor" -> LessThanOrEqualToComparitor(kind, a, b)

\* the outcome of checking one pair: whether it passed, the failures it
\* reported through Errorf, and how often it called the comparator and the
\* kind check
Outcome(ok, errs, comparitor, kindChecks) ==
    [ok |-> ok, errs |-> errs, comparitor |-> comparitor, kindChecks |-> kindChecks]

\* func showError (part_000:181-187): the message it hands to Errorf
showError(actual, expected, invert, display) ==
    [text |-> "expected", actual |-> actual, expected |-> expected,
     inversion |-> IF invert THEN "not " ELSE "", display |-> display]

\* the message of line 164
TypeMismatch(actual, expected, display) ==
    [text |-> "type mismatch", actual |-> actual, expected |-> expected,
     inversion |-> "", display |-> display]

\* line 174 without the inversion flag
ComparisonFailsIgnoringInvert(holds, invert) == ~holds

\* line 174: the test that fails a compared pair
ComparisonFails(holds, invert) == holds = invert

\* func (a *ToAssertion) To (part_000:160-179); c is a.comparitor
To(c, actual, expected, invert, display) ==
    LET same == SameKind(actual, expected) IN
    IF ~same.ok
    THEN Outcome(FALSE, <<TypeMismatch(actual, expected, display)>>, 0, 1)
    ELSE LET a == IF IsInt(actual) THEN ToInt64(actual)
                  ELSE IF IsUint(actual) THEN ToUint64(actual) ELSE actual
             b == IF IsInt(actual) THEN ToInt64(expected)
                  ELSE IF IsUint(actual) THEN ToUint64(expected) ELSE expected
             kind == IF IsInt(actual) THEN "int64"
                     ELSE IF IsUint(actual) THEN "uint64" ELSE same.kind
         IN  IF ComparisonFails(Compare(c, kind, a, b), invert)
             THEN Outcome(FALSE, <<showError(a, b, invert, display)>>, 1, 1)
             ELSE Outcome(TRUE, <<>>, 1, 1)

\* the message of lines 206 and 210
CannotUse(display, v) ==
    [text |-> "cannot use", actual |-> v, expected |-> v,
     inversion |-> "", display |-> display]

\* Than without its checks of the operands
ThanUnchecked(c, actual, expected, invert, toDisplay, thanDisplay) ==
    To(c, actual, expected, invert, toDisplay)

\* func (a *ThanAssertion) Than (part_000:202-214); line 204 hands the
\* inversion flag to the ToAssertion it wraps
Than(c, actual, expected, invert, toDisplay, thanDisplay) ==
    IF ~IsNumeric(actual)
    THEN Outcome(FALSE, <<CannotUse(thanDisplay, actual)>>, 0, 0)
    ELSE IF ~IsNumeric(expected)
    THEN Outcome(FALSE, <<CannotUse(thanDisplay, expected)>>, 0, 0)
    ELSE To(c, actual, expected, invert, toDisplay)

\* line 122 without the inversion flag
NilPairFailsIgnoringInvert(aIsNil, bIsNil, invert) == aIsNil # bIsNil

\* line 122: the test that fails a pair with a nil-like operand
NilPairFails(aIsNil, bIsNil, invert) == (aIsNil = bIsNil) = invert

\* func equal (part_000:118-130)
equal(invert, display, a, b) ==
    LET aIsNil == IsNil(a)
        bIsNil == IsNil(b)
    IN  IF aIsNil \/ bIsNil
        THEN IF NilPairFails(aIsNil, bIsNil, invert)
             THEN Outcome(FALSE, <<showError(a, b, invert, display)>>, 0, 0)
             ELSE Outcome(TRUE, <<>>, 0, 0)
        ELSE To("EqualsComparitor", a, b, invert, display)

\* Errorf called once for each message, in order, with a current Result, by
\* an assertion that stands on the first line of a test method
RECURSIVE ErrorfAll(_, _)
ErrorfAll(rn, msgs) ==
    IF Len(msgs) = 0 THEN rn
    ELSE ErrorfAll(Errorf(rn, Head(msgs), BodyStack(1)), Tail(msgs))

RECURSIVE Flatten(_)
Flatten(ss) == IF Len(ss) = 0 THEN <<>> ELSE Head(ss) \o Flatten(Tail(ss))

(***************************************************************************)
(* One call Expect(actual, others...).To.Equal(expected, others...), or    *)
(* the same through Not, made in a test body whose Result is current.      *)
(***************************************************************************)
InitEqual ==
    /\ showStdout = FALSE
    /\ verbose = FALSE
    /\ summaryPath = FALSE
    /\ hasEach = FALSE
    /\ osStdout = Stdout
    /\ beforeEach = <<>>
    /\ runner = Start([results |-> <<>>, current |-> 0], 1)
    /\ pc = "body" /\ i = 1 /\ name = 1 /\ res = 1 /\ announced = FALSE
    /\ h = 1 /\ thunkCalls = 1 /\ steps = 0
    /\ panicVal = "" /\ raised = "" /\ origin = ""
    /\ out = <<>> /\ trace = << <<"method", 1>> >> /\ finishCalls = 0 /\ tFailed = 0
    /\ file = <<>>
    /\ upd = NoUpdate(0, 0, TRUE)
    /\ \E invert \in BOOLEAN, a \in Values, b \in Values,
          as \in SeqsUpTo(OtherValues, MaxOthers), bs \in SeqsUpTo(OtherValues, MaxOthers) :
          asrt = [state |-> "ready", invert |-> invert, actual |-> a, others |-> as,
                  expected |-> b, expectedOthers |-> bs, pairs |-> <<>>, failed |-> FALSE]

\* the message of line 102
CountMismatch(n, m) ==
    [text |-> "mismatch number of values", actual |-> n, expected |-> m,
     inversion |-> "", display |-> ""]

\* the variable `failed` of Equal if only the first pair counted
EqualFailedFirstOnly(same, pairs) == ~same \/ ~pairs[1].ok

\* the variable `failed` of Equal when it returns (lines 99, 103, 107-109)
EqualFailed(same, pairs) == ~same \/ \E k \in DOMAIN pairs : ~pairs[k].ok

\* func (e *ToExpectation) Equal (part_000:92-116)
Equal ==
    /\ asrt.state = "ready"
    /\ LET display == IF asrt.invert THEN "to equal" ELSE "to be equal to"
           first   == equal(asrt.invert, display, asrt.actual, asrt.expected)
           same    == Len(asrt.expectedOthers) = Len(asrt.others)
           rest    == IF same
                      THEN [k \in 1..Len(asrt.others) |->
                               equal(asrt.invert, display, asrt.others[k], asrt.expectedOthers[k])]
                      ELSE <<>>
           pairs   == <<first>> \o rest
           msgs    == first.errs
                      \o (IF same THEN Flatten([k \in 1..Len(rest) |-> rest[k].errs])
                          ELSE <<CountMismatch(Len(asrt.others) + 1, Len(asrt.expectedOthers) + 1)>>)
       IN  /\ runner' = ErrorfAll(runner, msgs)
           /\ asrt' = [asrt EXCEPT !.state = "done", !.pairs = pairs,
                                   !.failed = EqualFailed(same, pairs)]
    /\ UNCHANGED <<showStdout, verbose, summaryPath, osStdout, beforeEach>>
    /\ UNCHANGED <<hostVars, ctlVars, obsVars, fileVars>>

NextEqual == Equal

SpecEqual == InitEqual /\ [][NextEqual]_vars

(***************************************************************************)
(* One call Expect(actual).R(expected), or Expect(actual).Not.R(expected), *)
(* for one of the five relations, made in a test body whose Result is      *)
(* current.                                                                *)
(***************************************************************************)
Relations == {"Greater.Than", "GreaterOrEqual.To", "Less.Than", "LessOrEqual.To", "To.Equal"}

ThanRelations == {"Greater.Than", "Less.Than"}

\* the values the operands of a relation are drawn from
RelValues ==
    {IntV(1), IntV(2), Val("int8", FALSE, 2), Val("uint", FALSE, 1),
     Val("float64", FALSE, 1), StrV(1), StrV(2), UntypedNil}

\* the assertions func expect builds (part_000:60-74), inverted by NotExpect
\* (part_000:76-84), and the call of one of them
Expectation(rel, invert, actual, expected) ==
    CASE rel = "Greater.Than" ->
            Than("GreaterThanComparitor", actual, expected, invert,
                 "to be greater than", "greater than")
      [] rel = "GreaterOrEqual.To" ->
            To("GreaterOrEqualToComparitor", actual, expected, invert,
               "to be greater or equal to")
      [] rel = "Less.Than" ->
            Than("LessThanComparitor", actual, expected, invert,
                 "to be less than", "less than")
      [] rel = "LessOrEqual.To" ->
            To("LessThanOrEqualToComparitor", actual, expected, invert,
               "to be less or equal to")
      [] rel = "To.Equal" ->
            equal(invert, IF invert THEN "to equal" ELSE "to be equal to",
                  actual, expected)

InitRelation ==
    /\ showStdout = FALSE
    /\ verbose = FALSE
    /\ summaryPath = FALSE
    /\ hasEach = FALSE
    /\ osStdout = Stdout
    /\ beforeEach = <<>>
    /\ runner = Start([results |-> <<>>, current |-> 0], 1)
    /\ pc = "body" /\ i = 1 /\ name = 1 /\ res = 1 /\ announced = FALSE
    /\ h = 1 /\ thunkCalls = 1 /\ steps = 0
    /\ panicVal = "" /\ raised = "" /\ origin = ""
    /\ out = <<>> /\ trace = << <<"method", 1>> >> /\ finishCalls = 0 /\ tFailed = 0
    /\ file = <<>>
    /\ upd = NoUpdate(0, 0, TRUE)
    /\ \E rel \in Relations, invert \in BOOLEAN, a \in RelValues, b \in RelValues :
          asrt = [state |-> "ready", relation |-> rel, invert |-> invert,
                  actual |-> a, expected |-> b, outcome |-> Outcome(TRUE, <<>>, 0, 0)]

\* the call of the relation: what it returns, and the failures it reports
\* to the current Result
Relate ==
    /\ asrt.state = "ready"
    /\ LET o == Expectation(asrt.relation, asrt.invert, asrt.actual, asrt.expected)
       IN  /\ runner' = ErrorfAll(runner, o.errs)
           /\ asrt' = [asrt EXCEPT !.state = "done", !.outcome = o]
    /\ UNCHANGED <<showStdout, verbose, summaryPath, osStdout, beforeEach>>
    /\ UNCHANGED <<hostVars, ctlVars, obsVars, fileVars>>

NextRelation == Relate

SpecRelation == InitRelation /\ [][NextRelation]_vars

(***************************************************************************)
(* One call of Fail, and so of Runner.Errorf, with a Result current and    *)
(* some call stack above it.                                               *)
(***************************************************************************)
\* the files a frame of a test file may name
TestFiles ==
    {SuiteFile, <<"C:", "\\", "suite", "\\", "calc", TestSuffix>>,
     <<"\\", "suite", "/", "calc", TestSuffix>>, <<"calc", TestSuffix>>}

\* the files another frame may name
OtherFiles == {LibraryFile, <<"C:", "\\", "go", "\\", "value", ".go">>}

\* a stack of n frames, those at t1 and t2 (when not 0) being frames of a
\* test file; the line of a frame tells where it stands
StackOf(n, t1, t2, testFile, otherFile) ==
    [k \in 1..n |-> [file |-> IF k \in {t1, t2} THEN testFile ELSE otherFile,
                     line |-> FrameLimit + k]]

InitFail ==
    /\ showStdout = FALSE
    /\ verbose = FALSE
    /\ summaryPath = FALSE
    /\ hasEach = FALSE
    /\ osStdout = Stdout
    /\ beforeEach = <<>>
    /\ runner = Start([results |-> <<>>, current |-> 0], 1)
    /\ pc = "body" /\ i = 1 /\ name = 1 /\ res = 1 /\ announced = FALSE
    /\ h = 1 /\ thunkCalls = 1 /\ steps = 0
    /\ panicVal = "" /\ raised = "" /\ origin = ""
    /\ out = <<>> /\ trace = << <<"method", 1>> >> /\ finishCalls = 0 /\ tFailed = 0
    /\ file = <<>>
    /\ upd = NoUpdate(0, 0, TRUE)
    /\ \E n \in FirstFrame..MaxFrames, testFile \in TestFiles, otherFile \in OtherFiles :
          \E t1 \in 0..n :
             \E t2 \in {0} \cup (IF t1 = 0 THEN {} ELSE (t1 + 1)..n) :
                asrt = [state |-> "ready",
                        stack |-> StackOf(n, t1, t2, testFile, otherFile)]

\* func Fail (part_000:52-54): Errorf, which is runner.Errorf
Fail ==
    /\ asrt.state = "ready"
    /\ runner' = Errorf(runner, "failure", asrt.stack)
    /\ asrt' = [asrt EXCEPT !.state = "done"]
    /\ UNCHANGED <<showStdout, verbose, summaryPath, osStdout, beforeEach>>
    /\ UNCHANGED <<hostVars, ctlVars, obsVars, fileVars>>

NextFail == Fail

SpecFail == InitFail /\ [][NextFail]_vars

(***************************************************************************)
(* Properties of the suite runner.                                         *)
(***************************************************************************)
\* a Result that ends Failed: at least one failure recorded, not skipped
EndedFailed(r) == Len(r.failures) > 0 /\ ~r.skip

FailedResults == SelectSeq(runner.results, EndedFailed)

\* the lines of one kind printed so far, in order
Printed(ev) == SelectSeq(out, LAMBDA l : l.ev = ev)

\* the Result of a method (each method is started at most once)
ResultOf(method) == CHOOSE k \in DOMAIN runner.results : runner.results[k].method = method

\* C3: once finish has run, the failure summary lists exactly the tests that
\* ended Failed, one entry each and in order, under one heading, and t.Fail
\* was called iff there is such a test; with none, no summary block is
\* printed and t.Fail is never called.
C3_FailureSummary ==
    /\ finishCalls = 0 =>
          tFailed = 0 /\ Printed("header") = <<>> /\ Printed("summary") = <<>>
    /\ finishCalls > 0 =>
          /\ Len(Printed("summary")) = Len(FailedResults)
          /\ \A k \in 1..Len(FailedResults) :
                /\ Printed("summary")[k].method = FailedResults[k].method
                /\ Printed("summary")[k].as = "failed"
          /\ Len(Printed("header")) = (IF Len(FailedResults) > 0 THEN 1 ELSE 0)
          /\ (tFailed > 0) <=> (Len(FailedResults) > 0)

\* a run of two tests, one failed and one passed, has been summarised
C3_Witness ==
    /\ pc = "done"
    /\ Len(runner.results) = 2
    /\ Len(FailedResults) = 1
    /\ Len(Printed("summary")) = 1
    /\ tFailed = 1

\* C4: a test whose Result took a Skip is reported as skipped whatever
\* failures the same body recorded before or after, is never listed in the
\* failure summary, is counted as passed and not as failed, and does not by
\* itself make the run call t.Fail.
C4_SkipPrecedence ==
    /\ \A n \in DOMAIN out :
          (out[n].ev \in {"report", "summary"} /\ runner.results[ResultOf(out[n].method)].skip)
              => (out[n].ev = "report" /\ out[n].as = "skipped")
    /\ (upd.count = 1 /\ pc = "done") =>
          /\ upd.lastFailed =
                Cardinality({k \in DOMAIN runner.results : EndedFailed(runner.results[k])})
          /\ upd.lastPassed + upd.lastFailed = Len(runner.results)
    /\ tFailed > 0 => \E k \in DOMAIN runner.results : EndedFailed(runner.results[k])

\* a test failed an assertion, then skipped, then failed another one; it was
\* reported as skipped and the run ended without t.Fail
C4_Witness ==
    /\ pc = "done"
    /\ tFailed = 0
    /\ upd.count = 1 /\ upd.lastFailed = 0
    /\ \E k \in DOMAIN runner.results :
          /\ runner.results[k].skip
          /\ Len(runner.results[k].failures) = 2
          /\ \E n \in DOMAIN out : out[n] = Line("report", runner.results[k].method, "skipped", 0)

\* C5: while a test method body is executing, os.Stdout is the real stream,
\* with or without -vv.
C5_StdoutRealInBody == pc = "body" => osStdout = Stdout

\* without -vv, the body of the second test is running, after the stream was
\* silenced behind the first
C5_Witness ==
    /\ pc = "body"
    /\ ~showStdout
    /\ Len(runner.results) = 2
    /\ osStdout = Stdout

\* C6 as stated: the stream is the silenced sink from before a test begins,
\* is the real stream again once the test has been reported, and is the real
\* stream while the body runs only under -vv.
C6_SilencedDuringTest ==
    /\ (pc \in {"hooks", "each", "body"} /\ ~showStdout) => osStdout # Stdout
    /\ (pc = "loop" /\ Len(runner.results) > 0) => osStdout = Stdout

\* C6 amended: the stream is the real one from before a test's Result is
\* started until its thunk (which reports the outcome) and its Each have
\* returned, with or without -vv; outside of that, between tests and after the
\* last one, it is the silenced sink.
C6_RealDuringTestSilencedBetween ==
    /\ pc \in {"hooks", "each", "body"} => osStdout = Stdout
    /\ pc = "loop" => osStdout = SilentOut

\* without -vv, the first test has failed and been reported and the loop is
\* about to look at the next method, with the stream silenced
C6_Witness ==
    /\ pc = "loop" /\ i = 2
    /\ ~showStdout
    /\ Len(runner.results) = 1 /\ Ended(runner.results[1])
    /\ Len(Printed("report")) = 1
    /\ osStdout = "nil"

\* the calls the claim C7 prescribes for a test, up to the first call of the
\* method: Each (when the suite has one), then every hook in registration
\* order, then the method
HooksInsideThunk ==
    (IF hasEach THEN << <<"Each", 0>> >> ELSE <<>>)
        \o [k \in 1..Len(beforeEach) |-> <<"hook", beforeEach[k]>>]
        \o << <<"method", name>> >>

\* C7: for every executed test the global hooks run once each, in
\* registration order, after Each has been invoked and before the test method
\* is called.
C7_HooksAfterEach == (pc = "body" /\ thunkCalls = 1) => trace = HooksInsideThunk

\* C8: once the controlled-stop sentinel has been raised, control never
\* returns to the loop (no further method is invoked), the sentinel is not
\* re-raised, finish has run exactly once over every Result started, the
\* panicking test's included, and t.Fail was called iff one of them ended
\* Failed.
C8_ControlledStop ==
    panicVal = "endTestErr" =>
        /\ pc \in {"panicking", "done", "crashed"}
        /\ res = Len(runner.results) /\ runner.results[res].method = name
        /\ pc = "panicking" => finishCalls = 0 /\ raised = ""
        /\ pc # "panicking" =>
              /\ raised # "endTestErr"
              /\ (pc = "crashed") <=> (raised = "ioerr")
              /\ finishCalls = 1
              /\ tFailed = (IF Len(FailedResults) > 0 THEN 1 ELSE 0)
              /\ Len(Printed("summary")) = Len(FailedResults)
              /\ Printed("bomb") = <<>>

\* the second test failed an assertion and then raised the sentinel: the run
\* returned, and its failure is in the summary
C8_Witness ==
    /\ panicVal = "endTestErr" /\ origin = "body"
    /\ pc = "done"
    /\ Len(runner.results) = 2
    /\ EndedFailed(runner.results[2])
    /\ ~Ended(runner.results[2])
    /\ tFailed = 1

\* C9: when a hook or a test body panics with anything but the sentinel,
\* control never returns to the loop, and once the deferred function has run
\* os.Stdout is the real stream, the Result last started has been reported
\* (followed by the line naming the test), the same value has been re-raised,
\* and neither the failure summary nor the merge of the summary file has
\* happened.
C9_FatalPanic ==
    (panicVal \notin {"", "endTestErr"} /\ origin # "finish") =>
        /\ pc \in {"panicking", "crashed"}
        /\ res = Len(runner.results) /\ runner.results[res].method = name
        /\ finishCalls = 0 /\ tFailed = 0
        /\ Printed("header") = <<>> /\ Printed("summary") = <<>>
        /\ upd.count = 0 /\ ~upd.err /\ file = <<>>
        /\ pc = "crashed" =>
              /\ osStdout = Stdout
              /\ raised = panicVal
              /\ Len(out) >= 2
              /\ out[Len(out) - 1] = ReportLine(runner.results[res])
              /\ out[Len(out)] = Line("bomb", name, "", 0)
              /\ Ended(runner.results[res])

\* with a summary file configured, the first test failed and the body of the
\* second panicked: the panic left Expectify
C9_Witness ==
    /\ pc = "crashed" /\ raised = "other" /\ origin = "body"
    /\ summaryPath
    /\ Len(runner.results) = 2
    /\ EndedFailed(runner.results[1])

(***************************************************************************)
(* Properties of the assertion engine.                                     *)
(***************************************************************************)
\* the operands of the pairs Equal checked, in the order it checked them
PairOperands ==
    <<[a |-> asrt.actual, b |-> asrt.expected]>>
        \o [k \in 1..(Len(asrt.pairs) - 1) |->
                [a |-> asrt.others[k], b |-> asrt.expectedOthers[k]]]

\* C10: for every pair Equal checks in which an operand is nil-like, neither
\* the comparator nor the kind check is called; without Not the pair passes
\* iff both operands are nil-like, with Not iff exactly one is; a pair that
\* does not pass reports exactly one failure, a pair that passes none; and
\* the failures reported are the ones the Result received.
C10_NilAwareEqual ==
    asrt.state = "done" =>
        /\ \A k \in DOMAIN asrt.pairs :
              LET a == PairOperands[k].a
                  b == PairOperands[k].b
                  o == asrt.pairs[k]
              IN  (IsNil(a) \/ IsNil(b)) =>
                     /\ o.comparitor = 0 /\ o.kindChecks = 0
                     /\ o.ok <=> (IF asrt.invert THEN IsNil(a) # IsNil(b)
                                  ELSE IsNil(a) /\ IsNil(b))
                     /\ Len(o.errs) = (IF o.ok THEN 0 ELSE 1)
        /\ Len(asrt.others) = Len(asrt.expectedOthers) =>
              Len(runner.results[1].failures)
                  = Cardinality({k \in DOMAIN asrt.pairs : ~asrt.pairs[k].ok})

\* through Not, a nil pointer was compared with a value that is not nil and
\* passed, and the untyped nil was compared with itself and failed
C10_Witness ==
    /\ asrt.state = "done" /\ asrt.invert
    /\ asrt.actual = NilPtr /\ asrt.expected = IntV(1) /\ asrt.pairs[1].ok
    /\ asrt.others = <<UntypedNil>> /\ asrt.expectedOthers = <<UntypedNil>>
    /\ ~asrt.pairs[2].ok
    /\ Len(runner.results[1].failures) = 1
    /\ asrt.failed

\* the messages of the failures a Result holds, in order
Messages(r) == [j \in DOMAIN r.failures |-> r.failures[j].message]

\* whether a message is the one a count mismatch reports
IsCountMismatch(msg) == msg.text = "mismatch number of values"

\* whether the values at one position do not agree, under the polarity of
\* the call
PairMismatch(a, b) ==
    ~equal(asrt.invert, IF asrt.invert THEN "to equal" ELSE "to be equal to", a, b).ok

\* the positions after the first at which both sides have a value
SharedPositions ==
    1..(IF Len(asrt.others) < Len(asrt.expectedOthers)
        THEN Len(asrt.others) ELSE Len(asrt.expectedOthers))

\* the shared positions whose values do not agree
MismatchedPositions ==
    {k \in SharedPositions : PairMismatch(asrt.others[k], asrt.expectedOthers[k])}

OffendingSides ==
    (IF IsNumeric(asrt.actual) THEN 0 ELSE 1) + (IF IsNumeric(asrt.expected) THEN 0 ELSE 1)

\* C12 as stated: a Than call with an operand that is not numeric fails
\* without calling the comparator, and reports one failure for each side
\* that is not numeric: one when only one side is, two when both are.
C12_FailurePerOffendingSide ==
    (asrt.state = "done" /\ asrt.relation \in ThanRelations /\ OffendingSides > 0) =>
        /\ ~asrt.outcome.ok
        /\ asrt.outcome.comparitor = 0 /\ asrt.outcome.kindChecks = 0
        /\ Len(runner.results[1].failures) = OffendingSides
        /\ \A j \in DOMAIN runner.results[1].failures :
              runner.results[1].failures[j].message.text = "cannot use"

\* C12, amended: such a call fails without calling the comparator and
\* reports exactly one failure, which names the actual value when that is
\* not numeric and the expected value otherwise; the call returns to the
\* body in every case.
C12_OneNonNumericFailure ==
    (asrt.state = "done" /\ asrt.relation \in ThanRelations /\ OffendingSides > 0) =>
        /\ ~asrt.outcome.ok
        /\ asrt.outcome.comparitor = 0 /\ asrt.outcome.kindChecks = 0
        /\ Len(runner.results[1].failures) = 1
        /\ LET msg == runner.results[1].failures[1].message
           IN  /\ msg.text = "cannot use"
               /\ msg.actual = (IF IsNumeric(asrt.actual) THEN asrt.expected ELSE asrt.actual)
        /\ pc = "body" /\ panicVal = ""

\* through Not, a number was compared with a string by Less.Than: one
\* failure, naming the string
C12_Witness ==
    /\ asrt.state = "done" /\ asrt.relation = "Less.Than" /\ asrt.invert
    /\ asrt.actual = IntV(1) /\ asrt.expected = StrV(2)
    /\ ~asrt.outcome.ok
    /\ Len(runner.results[1].failures) = 1
    /\ runner.results[1].failures[1].message.actual = StrV(2)

\* the operands are non-nil and of one comparable kind family, numeric for
\* the Than relations
Comparable(rel, a, b) ==
    /\ ~IsNil(a) /\ ~IsNil(b)
    /\ KindFamily(a.kind) = KindFamily(b.kind)
    /\ rel \in ThanRelations => IsNumeric(a) /\ IsNumeric(b)

\* the relation itself, over what the values hold
RelationHolds(rel, a, b) ==
    CASE rel = "Greater.Than" -> a.val > b.val
      [] rel = "GreaterOrEqual.To" -> a.val >= b.val
      [] rel = "Less.Than" -> a.val < b.val
      [] rel = "LessOrEqual.To" -> a.val <= b.val
      [] rel = "To.Equal" -> a.val = b.val

\* C13: for each of the five relations and comparable operands, the plain
\* call passes iff the relation holds and the call through Not passes iff it
\* does not; so exactly one of the two passes, the other reports exactly one
\* failure, and the failure of the inverted call carries "not " in front of
\* the relation label.
C13_InversionPolarity ==
    (asrt.state = "done" /\ Comparable(asrt.relation, asrt.actual, asrt.expected)) =>
        LET o == asrt.outcome
            other == Expectation(asrt.relation, ~asrt.invert, asrt.actual, asrt.expected)
            holds == RelationHolds(asrt.relation, asrt.actual, asrt.expected)
            msgs == Messages(runner.results[1])
        IN  /\ o.ok <=> (IF asrt.invert THEN ~holds ELSE holds)
            /\ o.ok # other.ok
            /\ msgs = o.errs
            /\ Len(o.errs) = (IF o.ok THEN 0 ELSE 1)
            /\ Len(other.errs) = (IF other.ok THEN 0 ELSE 1)
            /\ ~o.ok => /\ o.errs[1].text = "expected"
                        /\ o.errs[1].inversion = (IF asrt.invert THEN "not " ELSE "")
            /\ ~other.ok => other.errs[1].inversion = (IF asrt.invert THEN "" ELSE "not ")

\* Expect(int8 2).Not.GreaterOrEqual.To(int 1): the relation holds across
\* the widths, so the inverted call fails, with one failure that says "not "
C13_Witness ==
    /\ asrt.state = "done" /\ asrt.relation = "GreaterOrEqual.To" /\ asrt.invert
    /\ asrt.actual = Val("int8", FALSE, 2) /\ asrt.expected = IntV(1)
    /\ ~asrt.outcome.ok
    /\ Len(runner.results[1].failures) = 1
    /\ runner.results[1].failures[1].message.inversion = "not "

\* the frames the walk of Runner.Errorf may look at that are frames of a
\* test file
TestFramesInReach ==
    {k \in FirstFrame..(FrameLimit - 1) :
        k + 1 <= Len(asrt.stack) /\ HasSuffix(asrt.stack[k + 1].file, TestSuffix)}

\* the name a file has without its directories, whichever separator they
\* are written with
BaseName(f) == SubSeq(f, Len(f) - 1, Len(f))

\* C17 as stated: the walk looks at frames 3 to 9 in order; the location
\* recorded is the base name and the line of the first of them that is a
\* frame of a test file; when there is none, because the stack runs out or
\* because none of the frames looked at is one, it is "???" with line 1, and
\* never the file and line of another frame.
C17_LocationOrPlaceholder ==
    asrt.state = "done" =>
        LET loc == runner.results[1].failures[1].location IN
        IF TestFramesInReach # {}
        THEN LET k == CHOOSE k \in TestFramesInReach : \A j \in TestFramesInReach : k <= j
             IN  /\ loc.file = BaseName(asrt.stack[k + 1].file)
                 /\ loc.line = asrt.stack[k + 1].line
        ELSE loc = [file |-> <<"???">>, line |-> 1]

(***************************************************************************)
(* Further properties of the suite runner.                                 *)
(***************************************************************************)
\* the Failure that Fail appends when called from the statement of a test
\* that runs next
NextFailure ==
    [message |-> "failure",
     location |-> [file |-> <<"calc", TestSuffix>>, line |-> steps + 1]]

CurrentIsTheRunningTest ==
    /\ runner.current \in {0, Len(runner.results)}
    /\ (pc = "body" /\ res # 0 /\ ~Ended(runner.results[res])) =>
           /\ runner.current = res
           /\ runner.results[res].method = name

ReportsOf(k) ==
    {j \in DOMAIN out : out[j].ev = "report" /\ out[j].method = runner.results[k].method}

\* C16 as stated: once its test is over, every Result that is failed has
\* had its report printed, before the report of any later test and before
\* the failure summary; a Result that passed or was skipped has had its
\* report printed iff the run is verbose; and the type name is announced
\* once, before the first report, in a call that prints a report, and not
\* at all in a call that prints none.
C16_ImmediateReports ==
    /\ pc \in {"loop", "done"} =>
          \A k \in DOMAIN runner.results :
             IF Passed(runner.results[k])
             THEN (ReportsOf(k) # {}) <=> verbose
             ELSE /\ ReportsOf(k) # {}
                  /\ \A j \in ReportsOf(k) :
                        \A e \in 1..(j - 1) :
                           /\ out[e].ev \notin {"header", "summary"}
                           /\ out[e].ev = "report" => out[e].method < out[j].method
    /\ pc # "crashed" =>
          LET reports == {j \in DOMAIN out : out[j].ev = "report"}
              announces == {j \in DOMAIN out : out[j].ev = "announce"}
          IN  /\ Cardinality(announces) = (IF reports = {} THEN 0 ELSE 1)
              /\ \A a \in announces : \A j \in reports : a < j

\* C18 as stated: when Expectify has returned without a panic leaving it,
\* os.Stdout is the silenced sink.
C18_SilencedOnReturn == pc = "done" => osStdout = SilentOut

\* C19 as stated: with no Result current, Fail, Skip and ErrorMessage each
\* leave every Result as it is and return to their caller.
C19_NoCurrentNoEffect ==
    [][(/\ runner.current = 0
        /\ \/ BodyErrorf \/ BodySkip \/ BodyErrorMessage
           \/ EachErrorf \/ EachSkip \/ EachErrorMessage) =>
           (runner' = runner /\ pc' = pc /\ panicVal' = panicVal)]_vars

\* how often the method of the test last started has been invoked
TimesInvoked == Len(SelectSeq(trace, LAMBDA e : e[1] = "method"))

\* C20 as stated: once its test is over, a Result that counts as passed is
\* the Result of a method that was invoked exactly once and whose End ran;
\* and a second call of the thunk does not end in a crash.
C20_PassedRanOnce ==
    /\ (pc \in {"loop", "done"} /\ res # 0 /\ Passed(runner.results[res])) =>
           /\ TimesInvoked = 1
           /\ runner.results[res].end = "End"
    /\ thunkCalls > 1 => panicVal # "nilderef"

====
